---------------------------- MODULE Spec2Model ----------------------------
(***************************************************************************)
(* Model of the market-data client (polygonService: fetchStockPrice,      *)
(* searchStocks, fetchCompanyDetails, fetchHistoricalPrices,               *)
(* fetchOptionsData, fetchOptionsExpirations, fetchOptionDetails,          *)
(* fetchMarketStatus) and of the options-chain screen                      *)
(* (OptionsChainScreen.tsx: mount effect, cleanup, loadOptionsData,        *)
(* handleExpirationChange, push callbacks, filteredOptions), and of the    *)
(* AuthProvider component (getSession continuation, onAuthStateChange      *)
(* callback, effect cleanup, signOut).                                     *)
(*                                                                         *)
(* The specifications share the variables:                                 *)
(*   ClientSpec  one call of a client function on a provider response;     *)
(*   ViewSpec    the Ready screen: filter text, option type, render and    *)
(*               the push-update merge, on a loaded contract list;         *)
(*   Spec        the screen's life cycle: the mount sequence, symbol       *)
(*               changes, overlapping contract loads, subscriptions,       *)
(*               pushes and unmount;                                       *)
(*   FairSpec    Spec where every request and subscribe call completes;    *)
(*   AuthSpec    AuthProvider and the auth service's session reads and     *)
(*               change events, delivered in any order.                    *)
(*                                                                         *)
(* Texts are sequences of one-character strings, compared by UTF-16 code   *)
(* unit as JavaScript does.  An HTTP exchange is a record: [err |-> TRUE]  *)
(* when axios rejects, [err |-> FALSE, data |-> d] otherwise, where d is   *)
(* the JSON body (a record whose fields may be absent).  The outcome of an *)
(* async client function is [ok |-> TRUE, value |-> v] when its promise    *)
(* resolves with v and [ok |-> FALSE, ...] when it rejects.                *)
(***************************************************************************)
EXTENDS Integers, Sequences, FiniteSets, TLC

VARIABLES
    \* ---- OptionsChainScreen component state (useState cells)
    symbol,              \* the symbol prop
    stockPrice,          \* number | null  (Null below)
    optionType,          \* 'call' | 'put'
    expirationDates,     \* string[]
    selectedExpiration,  \* string ('' initially)
    options,             \* OptionData[]  (the canonical contract list)
    loading,
    loadingOptions,
    filterText,
    \* ---- refs
    stockPriceUnsubscribeRef,   \* handle id, 0 = null
    optionUnsubscribesRef,      \* Map contract symbol -> handle id
    \* ---- environment of the screen
    mounted,             \* FALSE once the effect cleanup ran for unmount
    handles,             \* every handle a subscribe call returned
    runs,                \* loadInitialData invocations (one per effect run)
    loads,               \* loadOptionsData invocations
    alerts,              \* number of Alert.alert calls
    \* ---- view level
    displayed,           \* filteredOptions as last rendered
    delivered,           \* the push update last merged in ViewSpec, numbered
    \* ---- one client call
    call,                \* the call and the provider's answers
    ret,                 \* its outcome
    \* ---- AuthProvider component state (useState cells)
    user,                \* null | boolean: << >> is null, << b >> is b
    session,             \* Session | null: << >> is null, << id >> a session
    \* ---- environment of AuthProvider
    route,               \* the route last given to router.replace ("" none)
    listening,           \* the onAuthStateChange subscription is active
    authCurrent,         \* the session the auth service holds
    authOutcomes         \* session reads and change events, as they occurred

vars == << symbol, stockPrice, optionType, expirationDates, selectedExpiration,
           options, loading, loadingOptions, filterText,
           stockPriceUnsubscribeRef, optionUnsubscribesRef, mounted, handles,
           runs, loads, alerts, displayed, delivered, call, ret, user,
           session, route, listening, authCurrent, authOutcomes >>

screenVars == << symbol, stockPrice, optionType, expirationDates,
                 selectedExpiration, options, loading, loadingOptions,
                 filterText, stockPriceUnsubscribeRef, optionUnsubscribesRef,
                 mounted, handles, runs, loads, alerts, displayed, delivered >>

clientVars == << call, ret >>

authVars == << user, session, route, listening, authCurrent, authOutcomes >>

-----------------------------------------------------------------------------
(* Bounds *)

\* longest provider payload (rows of a listing, search or history response)
MaxRows == 3
\* loadOptionsData invocations in one behaviour of the screen: the mount's,
\* one per expiration change, and two counted for a symbol change (its
\* effect run awaits three calls before it starts its load)
MaxLoads == 3
\* auth change events in one behaviour of AuthProvider
MaxEvents == 3
\* push updates in one behaviour of the Ready screen of ViewSpec
MaxPushes == 2

-----------------------------------------------------------------------------
(* Values *)

Null == "null"
Pending == [pending |-> TRUE]            \* a promise not yet settled
NoRec == [x \in {} |-> 0]                \* an object with no field / undefined

Ok(v) == [ok |-> TRUE, value |-> v]
Throw(e) == [ok |-> FALSE, value |-> e]

ErrResp == [err |-> TRUE]
OkResp(d) == [err |-> FALSE, data |-> d]

\* r?.f for an object-valued field
Sub(r, f) == IF f \in DOMAIN r THEN r[f] ELSE NoRec
\* r?.f || 0 for a number-valued field
NumOr0(r, f) == IF f \in DOMAIN r THEN r[f] ELSE 0

Range(s) == { s[i] : i \in 1..Len(s) }

SeqsUpTo(S, n) == UNION { [1..k -> S] : k \in 0..n }

-----------------------------------------------------------------------------
(* Texts *)

CodeUnit ==
    [c \in {"-", ".", "0", "1", "2", "3", "4", "5", "6", "7", "8", "9", "x"} |->
        CASE c = "-" -> 45 [] c = "." -> 46 [] c = "0" -> 48 [] c = "1" -> 49
          [] c = "2" -> 50 [] c = "3" -> 51 [] c = "4" -> 52 [] c = "5" -> 53
          [] c = "6" -> 54 [] c = "7" -> 55 [] c = "8" -> 56 [] c = "9" -> 57
          [] c = "x" -> 120]

\* a < b as JavaScript compares strings (code units, a proper prefix is less)
RECURSIVE StrLess(_, _)
StrLess(a, b) ==
    IF b = <<>> THEN FALSE
    ELSE IF a = <<>> THEN TRUE
    ELSE IF CodeUnit[Head(a)] # CodeUnit[Head(b)]
         THEN CodeUnit[Head(a)] < CodeUnit[Head(b)]
         ELSE StrLess(Tail(a), Tail(b))

DigitChar == [d \in 0..9 |->
    CASE d = 0 -> "0" [] d = 1 -> "1" [] d = 2 -> "2" [] d = 3 -> "3"
      [] d = 4 -> "4" [] d = 5 -> "5" [] d = 6 -> "6" [] d = 7 -> "7"
      [] d = 8 -> "8" [] d = 9 -> "9"]

\* Number.prototype.toString for a natural number
RECURSIVE NumToString(_)
NumToString(n) ==
    IF n < 10 THEN << DigitChar[n] >>
    ELSE Append(NumToString(n \div 10), DigitChar[n % 10])

\* String.prototype.includes
StrIncludes(s, t) ==
    \E i \in 0..Len(s) :
        /\ i + Len(t) <= Len(s)
        /\ \A j \in 1..Len(t) : s[i + j] = t[j]

\* Array.prototype.indexOf (1-based here, 0 when absent)
RECURSIVE IndexFrom(_, _, _)
IndexFrom(s, v, i) ==
    IF i > Len(s) THEN 0
    ELSE IF s[i] = v THEN i
    ELSE IndexFrom(s, v, i + 1)

IndexOf(s, v) == IndexFrom(s, v, 1)

-----------------------------------------------------------------------------
(* The market-data client *)

HasResults(resp) == "results" \in DOMAIN resp.data

\* fetchStockPrice: the previous-close aggregate of a symbol.  changePercent
\* is (change / o) * 100 in floating point; it is kept as the exact ratio.
fetchStockPrice(sym, resp) ==
    IF resp.err THEN Throw("transport")
    ELSE IF HasResults(resp) /\ Len(resp.data.results) > 0
    THEN LET result == resp.data.results[1]
             change == result.c - result.o
         IN  Ok([ticker |-> sym,
                 currentPrice |-> result.c,
                 previousClose |-> result.o,
                 change |-> change,
                 changePercent |-> [num |-> change * 100, den |-> result.o]])
    ELSE Throw("No data available")

\* faulty variant of searchStocks: a transport failure is rethrown
searchStocksMutant(resp) ==
    IF resp.err THEN Throw("transport")
    ELSE IF HasResults(resp)
    THEN Ok([i \in 1..Len(resp.data.results) |->
                LET item == resp.data.results[i]
                IN  [symbol |-> item.ticker, name |-> item.name,
                     market |-> item.market,
                     primaryExchange |-> item.primary_exchange,
                     type |-> item.type]])
    ELSE Ok(<<>>)

\* searchStocks: every failure is answered with the empty list
searchStocks(resp) ==
    IF resp.err THEN Ok(<<>>)
    ELSE IF HasResults(resp)
    THEN Ok([i \in 1..Len(resp.data.results) |->
                LET item == resp.data.results[i]
                IN  [symbol |-> item.ticker, name |-> item.name,
                     market |-> item.market,
                     primaryExchange |-> item.primary_exchange,
                     type |-> item.type]])
    ELSE Ok(<<>>)

\* fetchCompanyDetails: results is one object; branding?.logo_url || null
fetchCompanyDetails(resp) ==
    IF resp.err THEN Throw("transport")
    ELSE IF HasResults(resp)
    THEN LET r == resp.data.results
         IN  Ok([name |-> r.name,
                 description |-> r.description,
                 industry |-> r.sic_description,
                 marketCap |-> r.market_cap,
                 employees |-> r.total_employees,
                 website |-> r.homepage_url,
                 logoUrl |-> IF "logo_url" \in DOMAIN Sub(r, "branding")
                             THEN r.branding.logo_url ELSE Null,
                 address |-> r.address,
                 exchange |-> r.primary_exchange,
                 type |-> r.type])
    ELSE Throw("No company details available")

\* new Date(t).toISOString().split('T')[0]: the UTC calendar day of the
\* millisecond timestamp t, kept as the day's number since the epoch
IsoDay(t) == t \div 86400000

fetchHistoricalPrices(resp) ==
    IF resp.err THEN Ok(<<>>)
    ELSE IF HasResults(resp)
    THEN Ok([i \in 1..Len(resp.data.results) |->
                LET item == resp.data.results[i]
                IN  [date |-> IsoDay(item.t), open |-> item.o, high |-> item.h,
                     low |-> item.l, close |-> item.c, volume |-> item.v]])
    ELSE Ok(<<>>)

\* .filter((value, index, self) => self.indexOf(value) === index)
RECURSIVE UniqueFrom(_, _)
UniqueFrom(s, i) ==
    IF i > Len(s) THEN <<>>
    ELSE IF IndexOf(s, s[i]) = i THEN << s[i] >> \o UniqueFrom(s, i + 1)
    ELSE UniqueFrom(s, i + 1)

Unique(s) == UniqueFrom(s, 1)

\* Array.prototype.sort() with the default comparison, on strings
RECURSIVE InsertString(_, _)
InsertString(sorted, x) ==
    IF sorted = <<>> THEN << x >>
    ELSE IF StrLess(x, Head(sorted)) THEN << x >> \o sorted
    ELSE << Head(sorted) >> \o InsertString(Tail(sorted), x)

RECURSIVE SortStrings(_)
SortStrings(s) ==
    IF s = <<>> THEN <<>>
    ELSE InsertString(SortStrings(SubSeq(s, 1, Len(s) - 1)), s[Len(s)])

\* faulty variant of fetchOptionsExpirations: a failed request is answered
\* with the empty list, as searchStocks does
fetchOptionsExpirationsSwallows(resp) ==
    IF resp.err THEN Ok(<<>>)
    ELSE IF HasResults(resp) /\ Len(resp.data.results) > 0
    THEN Ok(SortStrings(Unique(
            [i \in 1..Len(resp.data.results) |->
                resp.data.results[i].expiration_date])))
    ELSE Ok(<<>>)

\* faulty variant of fetchOptionsExpirations: the duplicate filter is missing
fetchOptionsExpirationsMutant(resp) ==
    IF resp.err THEN Throw("transport")
    ELSE IF HasResults(resp) /\ Len(resp.data.results) > 0
    THEN Ok(SortStrings(
            [i \in 1..Len(resp.data.results) |->
                resp.data.results[i].expiration_date]))
    ELSE Ok(<<>>)

\* fetchOptionsExpirations: the distinct expiration dates, sorted
fetchOptionsExpirations(resp) ==
    IF resp.err THEN Throw("transport")
    ELSE IF HasResults(resp) /\ Len(resp.data.results) > 0
    THEN Ok(SortStrings(Unique(
            [i \in 1..Len(resp.data.results) |->
                resp.data.results[i].expiration_date])))
    ELSE Ok(<<>>)

ZeroDetails ==
    [lastPrice |-> 0, bidPrice |-> 0, askPrice |-> 0, openInterest |-> 0,
     volume |-> 0, impliedVolatility |-> 0,
     greeks |-> [delta |-> 0, gamma |-> 0, theta |-> 0, vega |-> 0, rho |-> 0]]

\* faulty variant of fetchOptionDetails: a failed snapshot request alone
\* keeps the price of the last trade
fetchOptionDetailsMutant(tradeResponse, snapshotResponse) ==
    IF tradeResponse.err THEN ZeroDetails
    ELSE LET snapshot == IF snapshotResponse.err THEN NoRec
                         ELSE Sub(snapshotResponse.data, "results")
             greeks == Sub(snapshot, "greeks")
         IN  [lastPrice |-> NumOr0(Sub(tradeResponse.data, "results"), "p"),
              bidPrice |-> NumOr0(Sub(snapshot, "bid"), "p"),
              askPrice |-> NumOr0(Sub(snapshot, "ask"), "p"),
              openInterest |-> NumOr0(snapshot, "open_interest"),
              volume |-> NumOr0(Sub(snapshot, "day"), "v"),
              impliedVolatility |-> NumOr0(snapshot, "implied_volatility"),
              greeks |-> [delta |-> NumOr0(greeks, "delta"),
                          gamma |-> NumOr0(greeks, "gamma"),
                          theta |-> NumOr0(greeks, "theta"),
                          vega |-> NumOr0(greeks, "vega"),
                          rho |-> NumOr0(greeks, "rho")]]

\* fetchOptionDetails: last trade, then snapshot; any failure gives the zeros
fetchOptionDetails(tradeResponse, snapshotResponse) ==
    IF tradeResponse.err \/ snapshotResponse.err
    THEN ZeroDetails
    ELSE LET snapshot == Sub(snapshotResponse.data, "results")
             greeks == Sub(snapshot, "greeks")
         IN  [lastPrice |-> NumOr0(Sub(tradeResponse.data, "results"), "p"),
              bidPrice |-> NumOr0(Sub(snapshot, "bid"), "p"),
              askPrice |-> NumOr0(Sub(snapshot, "ask"), "p"),
              openInterest |-> NumOr0(snapshot, "open_interest"),
              volume |-> NumOr0(Sub(snapshot, "day"), "v"),
              impliedVolatility |-> NumOr0(snapshot, "implied_volatility"),
              greeks |-> [delta |-> NumOr0(greeks, "delta"),
                          gamma |-> NumOr0(greeks, "gamma"),
                          theta |-> NumOr0(greeks, "theta"),
                          vega |-> NumOr0(greeks, "vega"),
                          rho |-> NumOr0(greeks, "rho")]]

\* the letters toLowerCase changes, and what it changes them to
UpperLetters ==
    << "A", "B", "C", "D", "E", "F", "G", "H", "I", "J", "K", "L", "M",
       "N", "O", "P", "Q", "R", "S", "T", "U", "V", "W", "X", "Y", "Z" >>

LowerLetters ==
    << "a", "b", "c", "d", "e", "f", "g", "h", "i", "j", "k", "l", "m",
       "n", "o", "p", "q", "r", "s", "t", "u", "v", "w", "x", "y", "z" >>

LowerChar(c) ==
    IF \E n \in 1..Len(UpperLetters) : UpperLetters[n] = c
    THEN LowerLetters[CHOOSE n \in 1..Len(UpperLetters) : UpperLetters[n] = c]
    ELSE c

\* String.prototype.toLowerCase on the provider's contract_type: every
\* letter of the text is lowered
ToLowerCase(t) == [i \in 1..Len(t) |-> LowerChar(t[i])]

\* the two values of the screen's option type
CallType == << "c", "a", "l", "l" >>

PutType == << "p", "u", "t" >>

\* the record fetchOptionsData builds for one row of the listing
OptionRecord(option, details) ==
    [symbol |-> option.ticker,
     underlyingSymbol |-> option.underlying_ticker,
     expirationDate |-> option.expiration_date,
     strikePrice |-> option.strike_price,
     optionType |-> ToLowerCase(option.contract_type),
     lastPrice |-> NumOr0(details, "lastPrice"),
     bidPrice |-> NumOr0(details, "bidPrice"),
     askPrice |-> NumOr0(details, "askPrice"),
     openInterest |-> NumOr0(details, "openInterest"),
     volume |-> NumOr0(details, "volume"),
     impliedVolatility |-> NumOr0(details, "impliedVolatility"),
     greeks |-> IF "greeks" \in DOMAIN details THEN details.greeks
                ELSE [delta |-> 0, gamma |-> 0, theta |-> 0, vega |-> 0]]

\* the expiration date fetchOptionsData asks the listing for: the argument,
\* or the earliest expiration when the argument is omitted ('' or undefined)
ResolveExpiration(expirationDate, expResp) ==
    IF expirationDate # <<>> THEN Ok(expirationDate)
    ELSE LET expirations == fetchOptionsExpirations(expResp)
         IN  IF ~expirations.ok THEN expirations
             ELSE IF Len(expirations.value) > 0 THEN Ok(expirations.value[1])
             ELSE Throw("No expiration dates available")

\* fetchOptionsData: listResp answers the listing request, enrich[i] holds
\* the answers to the last-trade and snapshot requests of row i
fetchOptionsData(expirationDate, expResp, listResp, enrich) ==
    LET expDate == ResolveExpiration(expirationDate, expResp)
    IN  IF ~expDate.ok THEN expDate
        ELSE IF listResp.err THEN Throw("transport")
        ELSE IF HasResults(listResp) /\ Len(listResp.data.results) > 0
        THEN Ok([i \in 1..Len(listResp.data.results) |->
                    OptionRecord(listResp.data.results[i],
                        fetchOptionDetails(enrich[i].trade, enrich[i].snapshot))])
        ELSE Ok(<<>>)

\* the status fetchMarketStatus synthesizes when the request fails
DefaultMarketStatus(now) ==
    [market |-> "closed",
     serverTime |-> now,
     exchanges |-> [nasdaq |-> "closed", nyse |-> "closed", otc |-> "closed"],
     currencies |-> [fx |-> "closed", crypto |-> "open"]]

fetchMarketStatus(resp, now) ==
    IF resp.err THEN Ok(DefaultMarketStatus(now)) ELSE Ok(resp.data)

-----------------------------------------------------------------------------
(* The screen's pure parts *)

\* faulty variant of the merge: { ...update, ...opt }
MergeMutant(opt, update) ==
    [f \in DOMAIN opt \cup DOMAIN update |->
        IF f \in DOMAIN opt THEN opt[f] ELSE update[f]]

\* { ...opt, ...update }
Merge(opt, update) ==
    [f \in DOMAIN opt \cup DOMAIN update |->
        IF f \in DOMAIN update THEN update[f] ELSE opt[f]]

\* the functional update given to setOptions by the push callback that was
\* registered for the contract symbol sym
ApplyUpdate(prevOptions, sym, update) ==
    [i \in 1..Len(prevOptions) |->
        IF prevOptions[i].symbol = sym
        THEN Merge(prevOptions[i], update)
        ELSE prevOptions[i]]

\* Array.prototype.sort((a, b) => a.strikePrice - b.strikePrice): stable
RECURSIVE InsertByStrike(_, _)
InsertByStrike(sorted, x) ==
    IF sorted = <<>> THEN << x >>
    ELSE IF x.strikePrice < Head(sorted).strikePrice THEN << x >> \o sorted
    ELSE << Head(sorted) >> \o InsertByStrike(Tail(sorted), x)

RECURSIVE SortByStrike(_)
SortByStrike(s) ==
    IF s = <<>> THEN <<>>
    ELSE InsertByStrike(SortByStrike(SubSeq(s, 1, Len(s) - 1)), s[Len(s)])

\* the predicate of options.filter(...)
FilterKeeps(option, type, text) ==
    /\ option.optionType = type
    /\ \/ text = <<>>
       \/ StrIncludes(NumToString(option.strikePrice), text)
       \/ StrIncludes(NumToString(option.openInterest), text)

\* faulty variant of filteredOptions: options.sort(...).filter(...), which
\* sorts the array of the state cell in place
filteredOptionsMutant(opts, type, text) ==
    LET Keep(o) == FilterKeeps(o, type, text)
    IN  [shown |-> SelectSeq(SortByStrike(opts), Keep),
         canonical |-> SortByStrike(opts)]

\* options.filter(...).sort(...): shown is the value of filteredOptions,
\* canonical is the array held by the options state cell afterwards (filter
\* returns a new array, and it is that array sort reorders in place)
filteredOptions(opts, type, text) ==
    LET Keep(o) == FilterKeeps(o, type, text)
    IN  [shown |-> SortByStrike(SelectSeq(opts, Keep)),
         canonical |-> opts]

-----------------------------------------------------------------------------
(* The provider's answers drawn for one client call *)

DateStrings == { <<"1">>, <<"2">>, <<"1", "1">>, <<"1", "2">>, <<"2", "1">> }

ExpirationRows == { [expiration_date |-> d] : d \in DateStrings }

QuoteResponses ==
    { ErrResp, OkResp(NoRec), OkResp([results |-> <<>>]) } \cup
    { OkResp([results |-> << [c |-> c, o |-> o] >>]) :
        c \in {0, 150, 155}, o \in {0, 150} }

SearchItems ==
    { [ticker |-> t, name |-> "Inc", market |-> "stocks",
       primary_exchange |-> "XNAS", type |-> "CS"] : t \in {"AAPL", "AAPD"} }

SearchResponses ==
    { ErrResp, OkResp(NoRec) } \cup
    { OkResp([results |-> r]) : r \in SeqsUpTo(SearchItems, MaxRows) }

CompanyResponses ==
    { ErrResp, OkResp(NoRec) } \cup
    { OkResp([results |-> r]) :
        r \in { [name |-> "Apple", description |-> "maker",
                 sic_description |-> "computers", market_cap |-> 3,
                 total_employees |-> 2, homepage_url |-> "apple.com",
                 address |-> "Cupertino", primary_exchange |-> "XNAS",
                 type |-> "CS", branding |-> b] :
                b \in { NoRec, [logo_url |-> "logo.svg"] } } }

Bars ==
    { [t |-> t, o |-> 150, h |-> 156, l |-> 149, c |-> 155, v |-> 10] :
        t \in {0, 86399999, 86400000} }

HistoryResponses ==
    { ErrResp, OkResp(NoRec) } \cup
    { OkResp([results |-> r]) : r \in SeqsUpTo(Bars, MaxRows) }

ExpirationResponses ==
    { ErrResp, OkResp(NoRec) } \cup
    { OkResp([results |-> r]) : r \in SeqsUpTo(ExpirationRows, MaxRows) }

\* row i of the provider's contract listing of an underlying and expiration:
\* strikes 150, 150, 145, 145, ... and alternating types, as a chain has
ContractRow(sym, exp, i) ==
    [ticker |-> << sym, exp, i >>,
     underlying_ticker |-> sym,
     expiration_date |-> exp,
     strike_price |-> 150 - 5 * ((i - 1) \div 2),
     contract_type |-> IF i % 2 = 1 THEN << "c", "a", "l", "l" >>
                       ELSE << "P", "U", "T" >>]

Listing(sym, exp, n) == [i \in 1..n |-> ContractRow(sym, exp, i)]

ListingResponses(sym, exp, n) ==
    { ErrResp, OkResp(NoRec) } \cup
    { OkResp([results |-> Listing(sym, exp, k)]) : k \in 0..n }

FullSnapshot ==
    [bid |-> [p |-> 4], ask |-> [p |-> 6], open_interest |-> 15,
     day |-> [v |-> 7], implied_volatility |-> 2,
     greeks |-> [delta |-> 1, gamma |-> 2, theta |-> 3, vega |-> 4, rho |-> 5]]

TradeResponses == { ErrResp, OkResp(NoRec), OkResp([results |-> [p |-> 5]]) }

SnapshotResponses ==
    { ErrResp, OkResp(NoRec), OkResp([results |-> FullSnapshot]),
      OkResp([results |-> [bid |-> [p |-> 4], greeks |-> [delta |-> 1]]]) }

Enrichments == [trade : TradeResponses, snapshot : SnapshotResponses]

GoodEnrichment ==
    [trade |-> OkResp([results |-> [p |-> 5]]),
     snapshot |-> OkResp([results |-> FullSnapshot])]

MarketResponses ==
    { ErrResp,
      OkResp([market |-> "open", serverTime |-> 0,
              exchanges |-> [nasdaq |-> "open", nyse |-> "open", otc |-> "open"],
              currencies |-> [fx |-> "open", crypto |-> "open"]]) }

RowCount(listResp) ==
    IF ~listResp.err /\ HasResults(listResp) THEN Len(listResp.data.results) ELSE 0

StockPriceCalls ==
    { [op |-> "fetchStockPrice", symbol |-> "AAPL", resp |-> r] :
        r \in QuoteResponses }

SearchCalls == { [op |-> "searchStocks", resp |-> r] : r \in SearchResponses }

CompanyCalls ==
    { [op |-> "fetchCompanyDetails", resp |-> r] : r \in CompanyResponses }

HistoryCalls ==
    { [op |-> "fetchHistoricalPrices", resp |-> r] : r \in HistoryResponses }

ExpirationCalls ==
    { [op |-> "fetchOptionsExpirations", resp |-> r] :
        r \in ExpirationResponses }

OptionsDataCalls ==
    UNION { { [op |-> "fetchOptionsData", expirationDate |-> d, expResp |-> e,
               listResp |-> l, enrich |-> en] :
                en \in [1..RowCount(l) -> Enrichments] } :
            d \in { <<>>, <<"1">> },
            e \in { ErrResp, OkResp(NoRec),
                    OkResp([results |-> << [expiration_date |-> <<"2">>],
                                           [expiration_date |-> <<"1">>] >>]) },
            l \in ListingResponses("AAPL", <<"1">>, MaxRows - 1) }

MarketStatusCalls ==
    { [op |-> "fetchMarketStatus", resp |-> r, now |-> t] :
        r \in MarketResponses, t \in {1, 2} }

-----------------------------------------------------------------------------
(* Initial states *)

\* after construction: the first render is done and the mount effect has
\* called loadInitialData, which waits for subscribeToStockPrice
ScreenInit ==
    /\ symbol = "AAPL"
    /\ stockPrice = <<>>
    /\ optionType = CallType
    /\ expirationDates = <<>>
    /\ selectedExpiration = <<>>
    /\ options = <<>>
    /\ loading = TRUE
    /\ loadingOptions = FALSE
    /\ filterText = <<>>
    /\ stockPriceUnsubscribeRef = 0
    /\ optionUnsubscribesRef = NoRec
    /\ mounted = TRUE
    /\ handles = <<>>
    /\ runs = << [sym |-> "AAPL", pc |-> "subscribe", failed |-> FALSE,
                   alerted |-> FALSE] >>
    /\ loads = <<>>
    /\ alerts = 0
    /\ displayed = <<>>
    /\ delivered = NoRec

ClientIdle ==
    /\ call = NoRec
    /\ ret = Pending

\* AuthProvider after construction: both cells null, the effect has called
\* getSession and registered the onAuthStateChange callback
AuthProviderInit ==
    /\ user = <<>>
    /\ session = <<>>
    /\ route = ""
    /\ listening = TRUE
    /\ authOutcomes = <<>>

AuthIdle ==
    /\ AuthProviderInit
    /\ authCurrent = <<>>

-----------------------------------------------------------------------------
(* ClientSpec: one call of a client function *)

ClientInit ==
    /\ ScreenInit
    /\ \/ call \in StockPriceCalls
       \/ call \in SearchCalls
       \/ call \in CompanyCalls
       \/ call \in HistoryCalls
       \/ call \in ExpirationCalls
       \/ call \in OptionsDataCalls
       \/ call \in MarketStatusCalls
    /\ ret = Pending
    /\ AuthIdle

Returns(op, outcome) ==
    /\ call.op = op
    /\ ret = Pending
    /\ ret' = outcome
    /\ UNCHANGED << call, screenVars, authVars >>

CallFetchStockPrice ==
    Returns("fetchStockPrice", fetchStockPrice(call.symbol, call.resp))

CallSearchStocks ==
    Returns("searchStocks", searchStocks(call.resp))

CallFetchCompanyDetails ==
    Returns("fetchCompanyDetails", fetchCompanyDetails(call.resp))

CallFetchHistoricalPrices ==
    Returns("fetchHistoricalPrices", fetchHistoricalPrices(call.resp))

CallFetchOptionsExpirations ==
    Returns("fetchOptionsExpirations", fetchOptionsExpirations(call.resp))

CallFetchOptionsData ==
    Returns("fetchOptionsData",
            fetchOptionsData(call.expirationDate, call.expResp, call.listResp,
                             call.enrich))

CallFetchMarketStatus ==
    Returns("fetchMarketStatus", fetchMarketStatus(call.resp, call.now))

ClientNext ==
    \/ CallFetchStockPrice
    \/ CallSearchStocks
    \/ CallFetchCompanyDetails
    \/ CallFetchHistoricalPrices
    \/ CallFetchOptionsExpirations
    \/ CallFetchOptionsData
    \/ CallFetchMarketStatus

ClientSpec == ClientInit /\ [][ClientNext]_vars

Returned(op) == call.op = op /\ ret # Pending

-----------------------------------------------------------------------------
(* Claims on the client *)

\* the listing request of a fetchOptionsData call succeeded
ListingSucceeded ==
    /\ Returned("fetchOptionsData")
    /\ ResolveExpiration(call.expirationDate, call.expResp).ok
    /\ ~call.listResp.err

EnrichmentFailed(i) == call.enrich[i].trade.err \/ call.enrich[i].snapshot.err

\* C5: when the listing request succeeds, fetchOptionsData resolves with one
\* record per row of the listing, in the listing's order; a row whose last
\* trade or snapshot request failed has lastPrice, bidPrice, askPrice,
\* openInterest, volume, impliedVolatility and every Greek equal to 0, and
\* every other row carries the values of its own trade and snapshot answers.
C5_EnrichmentFailureIsAbsorbed ==
    ListingSucceeded =>
        /\ ret.ok
        /\ Len(ret.value) = RowCount(call.listResp)
        /\ \A i \in 1..RowCount(call.listResp) :
            LET rec == ret.value[i]
                row == call.listResp.data.results[i]
                snap == Sub(call.enrich[i].snapshot.data, "results")
            IN  /\ rec.symbol = row.ticker
                /\ rec.strikePrice = row.strike_price
                /\ rec.expirationDate = row.expiration_date
                /\ IF EnrichmentFailed(i)
                   THEN /\ rec.lastPrice = 0 /\ rec.bidPrice = 0
                        /\ rec.askPrice = 0 /\ rec.openInterest = 0
                        /\ rec.volume = 0 /\ rec.impliedVolatility = 0
                        /\ \A g \in DOMAIN rec.greeks : rec.greeks[g] = 0
                        /\ {"delta", "gamma", "theta", "vega"} \subseteq
                               DOMAIN rec.greeks
                   ELSE /\ rec.lastPrice =
                               NumOr0(Sub(call.enrich[i].trade.data, "results"), "p")
                        /\ rec.bidPrice = NumOr0(Sub(snap, "bid"), "p")
                        /\ rec.askPrice = NumOr0(Sub(snap, "ask"), "p")
                        /\ rec.openInterest = NumOr0(snap, "open_interest")
                        /\ rec.volume = NumOr0(Sub(snap, "day"), "v")
                        /\ rec.impliedVolatility = NumOr0(snap, "implied_volatility")
                        /\ \A g \in {"delta", "gamma", "theta", "vega", "rho"} :
                               rec.greeks[g] = NumOr0(Sub(snap, "greeks"), g)

\* C5 witness: a listing of two rows or more where the enrichment
\* of one row failed and that of another succeeded with non-zero values
C5_Witness ==
    /\ ListingSucceeded
    /\ Len(ret.value) >= 2
    /\ \E i, j \in 1..Len(ret.value) :
        /\ EnrichmentFailed(i) /\ ret.value[i].lastPrice = 0
        /\ ~EnrichmentFailed(j) /\ ret.value[j].lastPrice = 5
        /\ ret.value[j].greeks.rho = 5

\* C6: searchStocks, fetchHistoricalPrices and fetchMarketStatus never reject;
\* when the request fails the first two resolve with the empty sequence and
\* fetchMarketStatus resolves with the default status object (market closed)
C6_BestEffortNeverThrows ==
    /\ Returned("searchStocks") =>
          ret.ok /\ (call.resp.err => ret.value = <<>>)
    /\ Returned("fetchHistoricalPrices") =>
          ret.ok /\ (call.resp.err => ret.value = <<>>)
    /\ Returned("fetchMarketStatus") =>
          /\ ret.ok
          /\ call.resp.err =>
                /\ ret.value.market = "closed"
                /\ DOMAIN ret.value =
                       {"market", "serverTime", "exchanges", "currencies"}
                /\ ret.value.serverTime = call.now

C6_Witness ==
    /\ Returned("fetchMarketStatus")
    /\ call.resp.err
    /\ ret.ok
    /\ ret.value.market = "closed"

\* fetchCompanyDetails rejects when its request fails or has no result
CompanyDetailsRejects ==
    Returned("fetchCompanyDetails") =>
        (ret.ok <=> (~call.resp.err /\ HasResults(call.resp)))

\* C8: fetchOptionsExpirations resolves with exactly the distinct expiration
\* dates of the payload, strictly ascending in string order; with the empty
\* sequence when the provider lists no contract; it rejects when the request
\* fails
C8_ExpirationsSortedDistinct ==
    Returned("fetchOptionsExpirations") =>
        IF call.resp.err THEN ~ret.ok
        ELSE /\ ret.ok
             /\ LET rows == IF HasResults(call.resp)
                            THEN call.resp.data.results ELSE <<>>
                IN  /\ Range(ret.value) =
                          { rows[i].expiration_date : i \in 1..Len(rows) }
                    /\ \A i, j \in 1..Len(ret.value) :
                          i < j => StrLess(ret.value[i], ret.value[j])
                    /\ (rows = <<>> => ret.value = <<>>)

\* C8 witness: a payload out of order with a repeated date, one date a
\* proper prefix of another
C8_Witness ==
    /\ Returned("fetchOptionsExpirations")
    /\ ~call.resp.err /\ HasResults(call.resp)
    /\ call.resp.data.results =
          << [expiration_date |-> <<"2">>], [expiration_date |-> <<"1", "2">>],
             [expiration_date |-> <<"2">>] >>
    /\ ret.ok
    /\ ret.value = << <<"1", "2">>, <<"2">> >>

\* the markets a status lists as closed: every exchange and every currency
\* market of the record
AllClosed(status) ==
    /\ status.market = "closed"
    /\ \A e \in DOMAIN status.exchanges : status.exchanges[e] = "closed"
    /\ \A c \in DOMAIN status.currencies : status.currencies[c] = "closed"

\* C11: when the market-status request fails, the status fetchMarketStatus
\* resolves with reports the overall market and every exchange and currency
\* market it lists as closed
C11_FailureStatusIsAllClosed ==
    (Returned("fetchMarketStatus") /\ call.resp.err) =>
        (ret.ok /\ AllClosed(ret.value))

-----------------------------------------------------------------------------
(* ViewSpec: the Ready screen on a loaded contract list *)

\* contracts as fetchOptionsData returns them, with strikes out of order, a
\* tie on the strike, both types and several open interests
ViewContract(k) ==
    OptionRecord(
        [ticker |-> << "AAPL", <<"1">>, k >>,
         underlying_ticker |-> "AAPL",
         expiration_date |-> <<"1">>,
         strike_price |-> CASE k = 1 -> 150 [] k = 2 -> 95 [] k = 3 -> 105
                            [] OTHER -> 95,
         contract_type |-> IF k = 3 THEN << "P", "u", "t" >>
                           ELSE << "C", "a", "l", "l" >>],
        [lastPrice |-> 5, openInterest |-> CASE k = 1 -> 15 [] k = 2 -> 0
                                              [] k = 3 -> 15 [] OTHER -> 150])

\* the first n contracts, beginning with contract number first and going
\* round, or in the reverse of their order
Rotated(n, first) ==
    [i \in 1..n |-> ViewContract(((first + i - 2) % n) + 1)]

Reversed(n) == [i \in 1..n |-> ViewContract(n + 1 - i)]

\* the loaded lists: no contract, or the first n contracts in one of these
\* orders, none of them twice
ViewLists ==
    { <<>> } \cup
    UNION { { Rotated(n, f) : f \in 1..n } \cup { Reversed(n) } :
            n \in 1..MaxRows }

FilterTexts == { <<>>, <<"5">>, <<"1", "5">>, <<"x">> }

PushUpdates ==
    { NoRec, [lastPrice |-> 9, bidPrice |-> 8], [greeks |-> [delta |-> 7]] }

ViewInit ==
    /\ symbol = "AAPL"
    /\ stockPrice = << 150 >>
    /\ optionType = CallType
    /\ expirationDates = << <<"1">> >>
    /\ selectedExpiration = <<"1">>
    /\ options \in ViewLists
    /\ loading = FALSE
    /\ loadingOptions = FALSE
    /\ filterText = <<>>
    /\ stockPriceUnsubscribeRef = 0
    /\ optionUnsubscribesRef = NoRec
    /\ mounted = TRUE
    /\ handles = <<>>
    /\ runs = << [sym |-> "AAPL", pc |-> "done", failed |-> FALSE,
                   alerted |-> FALSE] >>
    /\ loads = <<>>
    /\ alerts = 0
    /\ displayed = <<>>
    /\ delivered = NoRec
    /\ ClientIdle
    /\ AuthIdle

viewFrame ==
    << symbol, stockPrice, expirationDates, selectedExpiration, loading,
       loadingOptions, stockPriceUnsubscribeRef, optionUnsubscribesRef,
       mounted, handles, runs, loads, alerts, call, ret, authVars >>

\* SegmentedButtons onValueChange
SetOptionType(type) ==
    /\ mounted /\ ~loading
    /\ optionType' = type
    /\ UNCHANGED << viewFrame, options, filterText, displayed, delivered >>

\* Searchbar onChangeText
SetFilterText(text) ==
    /\ mounted /\ ~loading
    /\ filterText' = text
    /\ UNCHANGED << viewFrame, options, optionType, displayed, delivered >>

\* a render of the Ready screen evaluates filteredOptions
Render ==
    /\ mounted /\ ~loading
    /\ LET r == filteredOptions(options, optionType, filterText)
       IN  /\ displayed' = r.shown
           /\ options' = r.canonical
    /\ UNCHANGED << viewFrame, optionType, filterText, delivered >>

\* the pushes merged so far
Pushes == IF DOMAIN delivered = {} THEN 0 ELSE delivered.n

\* the push callback of contract sym is invoked with update
DeliverUpdate(sym, update) ==
    /\ mounted
    /\ Pushes < MaxPushes
    /\ options' = ApplyUpdate(options, sym, update)
    /\ delivered' = [symbol |-> sym, update |-> update, before |-> options,
                     n |-> Pushes + 1]
    /\ UNCHANGED << viewFrame, optionType, filterText, displayed >>

ViewNext ==
    \/ \E type \in {CallType, PutType} : SetOptionType(type)
    \/ \E text \in FilterTexts : SetFilterText(text)
    \/ Render
    \/ \E k \in 1..(MaxRows + 1), u \in PushUpdates :
          DeliverUpdate(ViewContract(k).symbol, u)

ViewSpec == ViewInit /\ [][ViewNext]_vars

-----------------------------------------------------------------------------
(* Claims on the screen's pure parts *)

\* C4: after a push update for contract symbol S is merged, the list has the
\* same length and order; the record whose symbol is S carries the update's
\* fields over its own; every other record is unchanged; and the list is
\* unchanged when no record has symbol S
C4_UpdateChangesOnlyItsRecord ==
    DOMAIN delivered # {} =>
        LET before == delivered.before
            u == delivered.update
        IN  /\ Len(options) = Len(before)
            /\ \A i \in 1..Len(before) :
                IF before[i].symbol = delivered.symbol
                THEN /\ DOMAIN options[i] = DOMAIN before[i] \cup DOMAIN u
                     /\ \A f \in DOMAIN u : options[i][f] = u[f]
                     /\ \A f \in DOMAIN before[i] \ DOMAIN u :
                            options[i][f] = before[i][f]
                ELSE options[i] = before[i]
            /\ (\A i \in 1..Len(before) : before[i].symbol # delivered.symbol)
                   => options = before

\* C4 witness: an update changed the second of three records and no other
C4_Witness ==
    /\ DOMAIN delivered # {}
    /\ Len(options) = 3
    /\ delivered.before[2].symbol = delivered.symbol
    /\ delivered.before[2].lastPrice = 5
    /\ options[2].lastPrice = 9
    /\ options[1] = delivered.before[1]
    /\ options[3] = delivered.before[3]

Count(s, x) == Cardinality({ i \in 1..Len(s) : s[i] = x })

\* the screen has rendered its current canonical list, type and filter text
Rendered == displayed = filteredOptions(options, optionType, filterText).shown

\* shown is the filtered and sorted view of opts
C9_Shown(opts, type, text, shown) ==
    /\ \A i \in 1..Len(opts) :
          Count(shown, opts[i]) =
              IF /\ opts[i].optionType = type
                 /\ \/ text = <<>>
                    \/ StrIncludes(NumToString(opts[i].strikePrice), text)
                    \/ StrIncludes(NumToString(opts[i].openInterest), text)
              THEN Count(opts, opts[i]) ELSE 0
    /\ Range(shown) \subseteq Range(opts)
    /\ \A i, j \in 1..Len(shown) :
          i < j => shown[i].strikePrice <= shown[j].strikePrice

\* C9: what is displayed holds exactly the contracts of the canonical list
\* that have the selected type and whose strike or open interest, written in
\* decimal, contains the filter text (all of that type when the text is
\* empty), in ascending order of strike; and rendering leaves the canonical
\* list as it was
C9_FilteredOptionsIsPureDerivation ==
    [][ (displayed' # displayed \/ options' # options) /\ delivered' = delivered
            => /\ options' = options
               /\ C9_Shown(options, optionType, filterText, displayed') ]_vars

C9_Witness ==
    /\ Len(options) = 3
    /\ filterText = <<"5">>
    /\ optionType = CallType
    /\ Len(displayed) = 2
    /\ displayed[1].strikePrice = 95
    /\ displayed[2].strikePrice = 150
    /\ options[1].strikePrice = 150
    /\ Rendered

-----------------------------------------------------------------------------
(* Spec: the life cycle of the screen *)

\* --- the push channel (subscribeToStockPrice, subscribeToOptionData): a call
\* resolves with a fresh handle, whose callback is invoked on every push
\* until the handle's stop operation is invoked
NewHandle(kind, key, owner) ==
    [kind |-> kind, key |-> key, owner |-> owner, stops |-> 0]

Live(h) == handles[h].stops = 0

Stopped(hs, ids) ==
    [h \in 1..Len(hs) |->
        IF h \in ids THEN [hs[h] EXCEPT !.stops = @ + 1] ELSE hs[h]]

\* --- Map
MapValues(m) == { m[k] : k \in DOMAIN m }

MapSet(m, k, v) == [x \in DOMAIN m \cup {k} |-> IF x = k THEN v ELSE m[x]]

\* --- what the provider answers to the screen's requests
ScreenDates == { <<"1">>, <<"2">> }

\* the symbols the parent renders the screen with
ScreenSymbols == { "AAPL", "MSFT" }

ScreenQuoteResponses ==
    { ErrResp, OkResp(NoRec), OkResp([results |-> << [c |-> 150, o |-> 148] >>]) }

ScreenExpirationResponses ==
    { ErrResp, OkResp(NoRec),
      OkResp([results |-> << [expiration_date |-> <<"2">>],
                             [expiration_date |-> <<"1">>],
                             [expiration_date |-> <<"2">>] >>]) }

\* the provider's chain: two contracts for the first date, one for the
\* second; a listing request fails, finds no contract or returns the chain
ChainSize(exp) == IF exp = <<"1">> THEN 2 ELSE 1

ScreenListingResponses(sym, exp) ==
    { ErrResp, OkResp([results |-> <<>>]),
      OkResp([results |-> Listing(sym, exp, ChainSize(exp))]) }

ScreenUpdates == { [lastPrice |-> 9] }

\* the channel pushes the close the aggregate reports
ScreenPrices == { 150 }

\* the quote request failed: no answer, or an answer without a result row
NoQuote(resp) ==
    resp.err \/ ~HasResults(resp) \/ Len(resp.data.results) = 0

\* faulty variant of the selection: the last date
FirstExpirationMutant(dates) == dates[Len(dates)]

\* dates[0], the expiration loadInitialData selects
FirstExpiration(dates) == dates[1]

\* --- loadOptionsData up to its first await: setLoadingOptions(true), stop
\* and clear the registry, request the contracts
BeginLoad(sym, expDate, run) ==
    /\ loadingOptions' = TRUE
    /\ handles' = Stopped(handles, MapValues(optionUnsubscribesRef))
    /\ optionUnsubscribesRef' = NoRec
    /\ loads' = Append(loads, [sym |-> sym, exp |-> expDate, pc |-> "fetch",
                               data |-> <<>>, next |-> 0, run |-> run,
                               failed |-> FALSE, alerted |-> FALSE])

\* subscribeToStockPrice resolves: the ref is set, fetchStockPrice is called
StockSubscribed(r) ==
    /\ runs[r].pc = "subscribe"
    /\ handles' = Append(handles, NewHandle("stock", runs[r].sym, r))
    /\ stockPriceUnsubscribeRef' = Len(handles) + 1
    /\ runs' = [runs EXCEPT ![r].pc = "quote"]
    /\ UNCHANGED << symbol, stockPrice, optionType, expirationDates,
                    selectedExpiration, options, loading, loadingOptions,
                    filterText, optionUnsubscribesRef, mounted, loads, alerts,
                    displayed, delivered, call, ret, authVars >>

\* fetchStockPrice settles
QuoteFetched(r, resp) ==
    /\ runs[r].pc = "quote"
    /\ LET stockData == fetchStockPrice(runs[r].sym, resp)
       IN  IF stockData.ok
           THEN /\ stockPrice' = << stockData.value.currentPrice >>
                /\ runs' = [runs EXCEPT ![r].pc = "expirations"]
                /\ UNCHANGED << loading, alerts >>
           ELSE /\ alerts' = alerts + 1
                /\ loading' = FALSE
                /\ runs' = [runs EXCEPT ![r].pc = "done", ![r].alerted = TRUE,
                                        ![r].failed = NoQuote(resp)]
                /\ UNCHANGED stockPrice
    /\ UNCHANGED << symbol, optionType, expirationDates, selectedExpiration,
                    options, loadingOptions, filterText,
                    stockPriceUnsubscribeRef, optionUnsubscribesRef, mounted,
                    handles, loads, displayed, delivered, call, ret, authVars >>

\* fetchOptionsExpirations settles
ExpirationsFetched(r, resp) ==
    /\ runs[r].pc = "expirations"
    /\ LET dates == fetchOptionsExpirations(resp)
       IN  IF ~dates.ok
           THEN /\ alerts' = alerts + 1
                /\ loading' = FALSE
                /\ runs' = [runs EXCEPT ![r].pc = "done", ![r].alerted = TRUE,
                                        ![r].failed = resp.err]
                /\ UNCHANGED << expirationDates, selectedExpiration,
                                loadingOptions, handles,
                                optionUnsubscribesRef, loads >>
           ELSE /\ expirationDates' = dates.value
                /\ alerts' = alerts
                /\ IF Len(dates.value) > 0
                   THEN /\ selectedExpiration' = FirstExpiration(dates.value)
                        /\ BeginLoad(runs[r].sym, FirstExpiration(dates.value), r)
                        /\ runs' = [runs EXCEPT ![r].pc = "options",
                                                ![r].failed = resp.err]
                        /\ UNCHANGED loading
                   ELSE /\ loading' = FALSE
                        /\ runs' = [runs EXCEPT ![r].pc = "done",
                                                ![r].failed = resp.err]
                        /\ UNCHANGED << selectedExpiration, loadingOptions,
                                        handles, optionUnsubscribesRef, loads >>
    /\ UNCHANGED << symbol, stockPrice, optionType, options, filterText,
                    stockPriceUnsubscribeRef, mounted, displayed, delivered,
                    call, ret, authVars >>

\* what the mount, the expiration changes and the symbol changes so far
\* count for against MaxLoads
Started ==
    1 + Cardinality({ k \in 1..Len(loads) : loads[k].run = 0 })
      + 2 * (Len(runs) - 1)

\* the user picks a date of the expiration menu, which the Ready screen shows
handleExpirationChange(expDate) ==
    /\ mounted /\ ~loading
    /\ Started < MaxLoads
    /\ expDate \in Range(expirationDates)
    /\ selectedExpiration' = expDate
    /\ BeginLoad(symbol, expDate, 0)
    /\ UNCHANGED << symbol, stockPrice, optionType, expirationDates, options,
                    loading, filterText, stockPriceUnsubscribeRef, mounted,
                    runs, alerts, displayed, delivered, call, ret, authVars >>

\* fetchOptionsData settles for load k
OptionsFetched(k, listResp) ==
    /\ loads[k].pc = "fetch"
    /\ LET optionsData ==
               fetchOptionsData(loads[k].exp, ErrResp, listResp,
                                [i \in 1..RowCount(listResp) |-> GoodEnrichment])
       IN  IF ~optionsData.ok
           THEN /\ alerts' = alerts + 1
                /\ loadingOptions' = FALSE
                /\ loads' = [loads EXCEPT ![k].pc = "done", ![k].alerted = TRUE,
                                          ![k].failed = listResp.err]
                /\ UNCHANGED options
           ELSE /\ options' = optionsData.value
                /\ alerts' = alerts
                /\ IF Len(optionsData.value) > 0
                   THEN /\ loads' = [loads EXCEPT ![k].pc = "subscribe",
                                                  ![k].data = optionsData.value,
                                                  ![k].next = 1]
                        /\ UNCHANGED loadingOptions
                   ELSE /\ loads' = [loads EXCEPT ![k].pc = "done"]
                        /\ loadingOptions' = FALSE
    /\ UNCHANGED << symbol, stockPrice, optionType, expirationDates,
                    selectedExpiration, loading, filterText,
                    stockPriceUnsubscribeRef, optionUnsubscribesRef, mounted,
                    handles, runs, displayed, delivered, call, ret,
                    authVars >>

\* subscribeToOptionData resolves for the contract load k is waiting on: the
\* registry is set, and the loop subscribes the next contract or ends
OptionSubscribed(k) ==
    /\ loads[k].pc = "subscribe"
    /\ LET option == loads[k].data[loads[k].next]
       IN  /\ handles' = Append(handles, NewHandle("option", option.symbol, k))
           /\ optionUnsubscribesRef' =
                  MapSet(optionUnsubscribesRef, option.symbol, Len(handles) + 1)
    /\ IF loads[k].next < Len(loads[k].data)
       THEN /\ loads' = [loads EXCEPT ![k].next = @ + 1]
            /\ UNCHANGED loadingOptions
       ELSE /\ loads' = [loads EXCEPT ![k].pc = "done"]
            /\ loadingOptions' = FALSE
    /\ UNCHANGED << symbol, stockPrice, optionType, expirationDates,
                    selectedExpiration, options, loading, filterText,
                    stockPriceUnsubscribeRef, mounted, runs, alerts,
                    displayed, delivered, call, ret, authVars >>

\* loadInitialData resumes after await loadOptionsData(dates[0]), in a job
\* after the one in which that load ended: finally, setLoading(false)
InitialLoadReturned(r) ==
    /\ runs[r].pc = "options"
    /\ \E k \in 1..Len(loads) : loads[k].run = r /\ loads[k].pc = "done"
    /\ loading' = FALSE
    /\ runs' = [runs EXCEPT ![r].pc = "done"]
    /\ UNCHANGED << symbol, stockPrice, optionType, expirationDates,
                    selectedExpiration, options, loadingOptions, filterText,
                    stockPriceUnsubscribeRef, optionUnsubscribesRef, mounted,
                    handles, loads, alerts, displayed, delivered, call, ret,
                    authVars >>

\* the channel pushes an update for the contract of the live handle h
OptionPushed(h, update) ==
    /\ handles[h].kind = "option"
    /\ Live(h)
    /\ options' = ApplyUpdate(options, handles[h].key, update)
    /\ UNCHANGED << symbol, stockPrice, optionType, expirationDates,
                    selectedExpiration, loading, loadingOptions, filterText,
                    stockPriceUnsubscribeRef, optionUnsubscribesRef, mounted,
                    handles, runs, loads, alerts, displayed, delivered, call,
                    ret, authVars >>

\* the channel pushes a quote for the live handle h
StockPushed(h, price) ==
    /\ handles[h].kind = "stock"
    /\ Live(h)
    /\ stockPrice' = << price >>
    /\ UNCHANGED << symbol, optionType, expirationDates, selectedExpiration,
                    options, loading, loadingOptions, filterText,
                    stockPriceUnsubscribeRef, optionUnsubscribesRef, mounted,
                    handles, runs, loads, alerts, displayed, delivered, call,
                    ret, authVars >>

\* the parent renders the screen with another symbol: the effect's cleanup
\* runs, then the effect again, whose loadInitialData waits for
\* subscribeToStockPrice of the new symbol
SymbolChanged(sym) ==
    /\ mounted
    /\ sym # symbol
    /\ Started + 1 < MaxLoads
    /\ symbol' = sym
    /\ handles' = Stopped(handles,
                          MapValues(optionUnsubscribesRef) \cup
                          (IF stockPriceUnsubscribeRef # 0
                           THEN { stockPriceUnsubscribeRef } ELSE {}))
    /\ stockPriceUnsubscribeRef' = 0
    /\ optionUnsubscribesRef' = NoRec
    /\ runs' = Append(runs, [sym |-> sym, pc |-> "subscribe",
                             failed |-> FALSE, alerted |-> FALSE])
    /\ UNCHANGED << stockPrice, optionType, expirationDates,
                    selectedExpiration, options, loading, loadingOptions,
                    filterText, mounted, loads, alerts, displayed, delivered,
                    call, ret, authVars >>

\* the effect's cleanup, run when the screen unmounts
Unmount ==
    /\ mounted
    /\ mounted' = FALSE
    /\ handles' = Stopped(handles,
                          MapValues(optionUnsubscribesRef) \cup
                          (IF stockPriceUnsubscribeRef # 0
                           THEN { stockPriceUnsubscribeRef } ELSE {}))
    /\ stockPriceUnsubscribeRef' = 0
    /\ optionUnsubscribesRef' = NoRec
    /\ UNCHANGED << symbol, stockPrice, optionType, expirationDates,
                    selectedExpiration, options, loading, loadingOptions,
                    filterText, runs, loads, alerts, displayed, delivered,
                    call, ret, authVars >>

Init == ScreenInit /\ ClientIdle /\ AuthIdle

Settles ==
    \/ \E r \in 1..Len(runs) : StockSubscribed(r)
    \/ \E r \in 1..Len(runs), resp \in ScreenQuoteResponses : QuoteFetched(r, resp)
    \/ \E r \in 1..Len(runs), resp \in ScreenExpirationResponses :
          ExpirationsFetched(r, resp)
    \/ \E k \in 1..Len(loads) :
          \E resp \in ScreenListingResponses(loads[k].sym, loads[k].exp) :
              OptionsFetched(k, resp)
    \/ \E k \in 1..Len(loads) : OptionSubscribed(k)
    \/ \E r \in 1..Len(runs) : InitialLoadReturned(r)

Next ==
    \/ Settles
    \/ \E d \in ScreenDates : handleExpirationChange(d)
    \/ \E sym \in ScreenSymbols : SymbolChanged(sym)
    \/ \E h \in 1..Len(handles), u \in ScreenUpdates : OptionPushed(h, u)
    \/ \E h \in 1..Len(handles), p \in ScreenPrices : StockPushed(h, p)
    \/ Unmount

Spec == Init /\ [][Next]_vars

\* every request and every subscribe call completes
FairSpec == Spec /\ WF_vars(Settles)

-----------------------------------------------------------------------------
(* Claims on the life cycle *)

OptionHandles == { h \in 1..Len(handles) : handles[h].kind = "option" }

LiveHandles == { h \in 1..Len(handles) : Live(h) }

\* C1 (as claimed): once a contract load has begun, every subscription of an
\* earlier load is stopped before a subscription of a later one is opened, and
\* no push changes a record of the list that is not a contract of the
\* expiration of the load begun last
C1_SwitchDrainsPreviousSet ==
    /\ [](\A g, h \in OptionHandles :
            handles[g].owner < handles[h].owner => ~Live(g))
    /\ [][ (loads' = loads /\ options' # options) =>
             \A i \in 1..Len(options) :
                options'[i] # options[i] =>
                    options[i].expirationDate = loads[Len(loads)].exp ]_vars

\* C2 (as claimed): no handle is stopped twice, every live handle is held in
\* the registry or in the quote ref, and none is live after the teardown
C2_EveryHandleStoppedOnce ==
    /\ \A h \in 1..Len(handles) : handles[h].stops <= 1
    /\ \A h \in LiveHandles :
          \/ h = stockPriceUnsubscribeRef
          \/ h \in MapValues(optionUnsubscribesRef)
    /\ ~mounted => LiveHandles = {}

\* C3 (as claimed): once unmounted, no subscription is live and neither the
\* state cells nor the refs change any more
C3_NothingAfterUnmount ==
    /\ [](~mounted => LiveHandles = {})
    /\ [][ ~mounted =>
             UNCHANGED << stockPrice, expirationDates, selectedExpiration,
                          options, loading, loadingOptions,
                          stockPriceUnsubscribeRef, optionUnsubscribesRef >> ]_vars

Failures ==
    Cardinality({ r \in 1..Len(runs) : runs[r].failed }) +
    Cardinality({ k \in 1..Len(loads) : loads[k].failed })

\* C7: a failed quote or expiration request ends the mount sequence with an
\* alert and loading off; a failed contract-list request ends its load with
\* an alert; there is one alert per failure; loadingOptions is off when no
\* load is in flight, and loading is off when the mount sequence has ended
C7_FailureAlertsAndStopsLoading ==
    /\ \A r \in 1..Len(runs) :
          runs[r].failed => runs[r].alerted /\ runs[r].pc = "done" /\ ~loading
    /\ \A k \in 1..Len(loads) :
          loads[k].failed => loads[k].alerted /\ loads[k].pc = "done"
    /\ alerts = Failures
    /\ (\A k \in 1..Len(loads) : loads[k].pc = "done") => ~loadingOptions
    /\ (\A r \in 1..Len(runs) : runs[r].pc = "done") => ~loading

\* C7 witness: the contract-list request of the mount sequence and that of a
\* later expiration change both failed
C7_Witness ==
    /\ Len(loads) = 2
    /\ loads[1].failed /\ loads[2].failed
    /\ alerts = 2
    /\ ~loading /\ ~loadingOptions

StockHandles == { h \in 1..Len(handles) : handles[h].kind = "stock" }

Earliest(d, dates) == \A e \in Range(dates) : ~StrLess(e, d)

\* the mount sequence, step by step, while the screen keeps the symbol it
\* was mounted with
MountOrder ==
    /\ loading <=> runs[1].pc # "done"
    /\ runs[1].pc = "subscribe" =>
          /\ StockHandles = {} /\ stockPrice = <<>>
          /\ expirationDates = <<>> /\ loads = <<>>
    /\ runs[1].pc = "quote" =>
          /\ StockHandles # {}
          /\ expirationDates = <<>> /\ loads = <<>>
    /\ runs[1].pc = "expirations" =>
          /\ StockHandles # {} /\ stockPrice # <<>>
          /\ expirationDates = <<>> /\ loads = <<>>
    /\ runs[1].pc = "options" =>
          /\ stockPrice # <<>>
          /\ expirationDates # <<>>
          /\ selectedExpiration = expirationDates[1]
          /\ Earliest(selectedExpiration, expirationDates)
          /\ Len(loads) = 1
          /\ loads[1].exp = selectedExpiration
          /\ loads[1].pc # "done" => loadingOptions
    /\ runs[1].pc = "done" =>
          IF expirationDates # <<>>
          THEN /\ loads[1].pc = "done"
               /\ loads[1].exp = expirationDates[1]
               /\ Earliest(loads[1].exp, expirationDates)
          ELSE /\ options = <<>> /\ selectedExpiration = <<>>
               /\ OptionHandles = {} /\ DOMAIN optionUnsubscribesRef = {}
               /\ loads = <<>>

\* every run of loadInitialData, also after a change of symbol: it holds a
\* quote subscription of its symbol once past the subscribe call, and it
\* started one contracts load, of its symbol, once past the expirations
RunOrder(r) ==
    /\ runs[r].pc # "subscribe" =>
          \E h \in StockHandles :
              handles[h].owner = r /\ handles[h].key = runs[r].sym
    /\ runs[r].pc \in {"subscribe", "quote", "expirations"} =>
          \A k \in 1..Len(loads) : loads[k].run # r
    /\ runs[r].pc = "options" =>
          \E k \in 1..Len(loads) :
              /\ loads[k].run = r /\ loads[k].sym = runs[r].sym
              /\ \A j \in 1..Len(loads) : loads[j].run = r => j = k
    /\ runs[r].pc = "done" =>
          \A k \in 1..Len(loads) : loads[k].run = r => loads[k].pc = "done"

C10_Order ==
    /\ Len(runs) = 1 => MountOrder
    /\ \A r \in 1..Len(runs) : RunOrder(r)
    /\ (\A r \in 1..Len(runs) : runs[r].pc = "done") => ~loading

\* C10: the mount sequence opens the quote subscription, fetches the quote,
\* fetches the expirations, and with expirations selects the earliest and
\* loads its contracts before loading goes off, without expirations ends with
\* an empty list, no selection and no contract subscription; and loading goes
\* off in every behaviour where every request completes
C10_MountSequence == []C10_Order /\ <>(~loading)

\* C10 witness: the mount sequence ended after loading two contracts of the
\* earliest of two expirations
C10_Witness ==
    /\ Len(runs) = 1
    /\ runs[1].pc = "done" /\ ~runs[1].alerted
    /\ ~loading
    /\ Len(expirationDates) = 2
    /\ Len(loads) = 1 /\ ~loads[1].alerted
    /\ loads[1].exp = <<"1">>
    /\ Len(options) = 2
    /\ Cardinality(OptionHandles) = 2

\* no effect run and no contracts load in flight on the mounted screen, and
\* the load begun last was for the screen's symbol and fetched its list
Quiescent ==
    /\ mounted
    /\ \A r \in 1..Len(runs) : runs[r].pc = "done"
    /\ Len(loads) > 0
    /\ \A k \in 1..Len(loads) : loads[k].pc = "done"
    /\ ~loads[Len(loads)].alerted
    /\ loads[Len(loads)].sym = symbol

ContractSymbols(list) == { list[i].symbol : i \in 1..Len(list) }

\* C12: whenever the screen is quiescent, the displayed list is the list
\* fetched for the selected expiration (that of the load begun last), and the
\* registry holds one live handle for each contract of that list, its keys
\* are the contracts of the list, and no other option handle is live
C12_QuiescentListAndRegistryAgree ==
    Quiescent =>
        LET last == loads[Len(loads)]
        IN  /\ selectedExpiration = last.exp
            /\ \A i \in 1..Len(options) :
                  options[i].expirationDate = selectedExpiration
            /\ [i \in 1..Len(options) |-> options[i].symbol] =
                  [i \in 1..Len(last.data) |-> last.data[i].symbol]
            /\ DOMAIN optionUnsubscribesRef = ContractSymbols(options)
            /\ \A c \in DOMAIN optionUnsubscribesRef :
                  /\ Live(optionUnsubscribesRef[c])
                  /\ handles[optionUnsubscribesRef[c]].key = c
            /\ OptionHandles \cap LiveHandles = MapValues(optionUnsubscribesRef)

-----------------------------------------------------------------------------
(* AuthSpec: AuthProvider and the auth service *)

\* sessions the auth service can hold
Sessions == { 1, 2 }

\* the events the service reports to the onAuthStateChange callback
AuthEvents == { "INITIAL_SESSION", "SIGNED_IN" }

\* session ? true : false
UserOf(s) == << s # <<>> >>

\* the route after the callback's navigation: the app when a session came,
\* the login page when SIGNED_OUT came without one, else no navigation
RouteAfter(event, s, prevRoute) ==
    IF s # <<>> THEN "/(app)"
    ELSE IF event = "SIGNED_OUT" THEN "/(auth)/login"
    ELSE prevRoute

Outcome(kind, event, s) ==
    [kind |-> kind, event |-> event, session |-> s, delivered |-> FALSE]

Reads == { i \in 1..Len(authOutcomes) : authOutcomes[i].kind = "read" }

Events == { i \in 1..Len(authOutcomes) : authOutcomes[i].kind = "event" }

Undelivered(ids) == { i \in ids : ~authOutcomes[i].delivered }

AuthInit ==
    /\ ScreenInit
    /\ ClientIdle
    /\ AuthProviderInit
    /\ authCurrent \in { <<>> } \cup { << s >> : s \in Sessions }

\* the service reads its session for the getSession call of the effect
SessionRead ==
    /\ Reads = {}
    /\ authOutcomes' = Append(authOutcomes,
                              Outcome("read", "GET_SESSION", authCurrent))
    /\ UNCHANGED << user, session, route, listening, authCurrent, screenVars,
                    call, ret >>

\* the service's session changes, or it reports the one it holds
AuthEventOccurs(event, s) ==
    /\ Cardinality(Events) < MaxEvents
    /\ LET carried == IF event = "SIGNED_IN" THEN << s >> ELSE authCurrent
       IN  /\ authCurrent' = carried
           /\ authOutcomes' = Append(authOutcomes,
                                     Outcome("event", event, carried))
    /\ UNCHANGED << user, session, route, listening, screenVars, call, ret >>

\* the continuation of getSession().then(...)
getSessionThen(i) ==
    /\ i \in Undelivered(Reads)
    /\ session' = authOutcomes[i].session
    /\ user' = UserOf(authOutcomes[i].session)
    /\ authOutcomes' = [authOutcomes EXCEPT ![i].delivered = TRUE]
    /\ UNCHANGED << route, listening, authCurrent, screenVars, call, ret >>

\* the callback given to onAuthStateChange, called with the events in the
\* order they occurred while the subscription is active
onAuthStateChange(i) ==
    /\ listening
    /\ i \in Undelivered(Events)
    /\ \A j \in Undelivered(Events) : i <= j
    /\ session' = authOutcomes[i].session
    /\ user' = UserOf(authOutcomes[i].session)
    /\ route' = RouteAfter(authOutcomes[i].event, authOutcomes[i].session,
                           route)
    /\ authOutcomes' = [authOutcomes EXCEPT ![i].delivered = TRUE]
    /\ UNCHANGED << listening, authCurrent, screenVars, call, ret >>

\* signOut: on success the service drops its session and reports SIGNED_OUT;
\* on error the message is logged and nothing changes
signOut(err) ==
    /\ listening
    /\ Cardinality(Events) < MaxEvents
    /\ IF err
       THEN UNCHANGED << authCurrent, authOutcomes >>
       ELSE /\ authCurrent' = <<>>
            /\ authOutcomes' = Append(authOutcomes,
                                      Outcome("event", "SIGNED_OUT", <<>>))
    /\ UNCHANGED << user, session, route, listening, screenVars, call, ret >>

\* the effect's cleanup: subscription.unsubscribe()
AuthCleanup ==
    /\ listening
    /\ listening' = FALSE
    /\ UNCHANGED << user, session, route, authCurrent, authOutcomes,
                    screenVars, call, ret >>

AuthNext ==
    \/ SessionRead
    \/ \E e \in AuthEvents, s \in Sessions : AuthEventOccurs(e, s)
    \/ \E i \in 1..Len(authOutcomes) : getSessionThen(i)
    \/ \E i \in 1..Len(authOutcomes) : onAuthStateChange(i)
    \/ \E err \in BOOLEAN : signOut(err)
    \/ AuthCleanup

AuthSpec == AuthInit /\ [][AuthNext]_vars

-----------------------------------------------------------------------------
(* Claims on AuthProvider *)

\* the outcomes delivered to AuthProvider so far
DeliveredOutcomes == { i \in 1..Len(authOutcomes) : authOutcomes[i].delivered }

\* the one among them that occurred last
LatestDelivered ==
    CHOOSE i \in DeliveredOutcomes : \A j \in DeliveredOutcomes : j <= i

\* user is null exactly while nothing was delivered, and afterwards it tells
\* whether the held session is non-null
UserFollowsSession ==
    /\ (user = <<>>) <=> (DeliveredOutcomes = {})
    /\ DeliveredOutcomes # {} => user = UserOf(session)
    /\ DeliveredOutcomes = {} => session = <<>>

\* C13: user is null exactly until the initial session read or a change
\* event is delivered; afterwards user is true exactly when the held session
\* is non-null, and the held session is the one carried by the outcome that
\* occurred last among those delivered, whatever the order of delivery
C13_SessionIsLatestOutcome ==
    /\ UserFollowsSession
    /\ DeliveredOutcomes # {} =>
          session = authOutcomes[LatestDelivered].session

=============================================================================
